---- MODULE Spec2Model ----
(***************************************************************************)
(* Model of portman's test-injection engine:                               *)
(*   src/application/TestSuite.ts            (TestSuite)                   *)
(*   src/application/IntegrationTestWriter.ts (IntegrationTestWriter)      *)
(*                                                                         *)
(* A request record (PostmanMappedOperation) is [id, pathRef, name, tests] *)
(* where tests is the ordered sequence of assertions attached to it.  A    *)
(* JS value that may be undefined is modelled by the string Undefined for  *)
(* string-typed values and by a "defined" flag for structured values.      *)
(***************************************************************************)
EXTENDS Integers, Sequences, FiniteSets, TLC

VARIABLES
  pc,                \* position of the current run
  pmOperation,       \* injectContractTests: argument pmOperation
  oaOperation,       \* injectContractTests: argument oaOperation
  contractTest,      \* injectContractTests: argument contractTest
  injected,          \* injectContractTests: returned record
  config,            \* TestSuite.config
  suite,             \* TestSuite.contractTests, contentTests, variationTests, extendTests
  mappedOperations,  \* postmanParser.mappedOperations, the records of the collection
  call,              \* the entry point called last and its arguments
  before,            \* mappedOperations when that call was made
  resolved,          \* the value getOperationsFromSetting returned
  injections,        \* the <<rule index, record index>> pairs handed to
                     \* injectContractTests by generateContractTests, in order
  integrationTestFolder,      \* IntegrationTestWriter.integrationTestFolder
  integrationTestCollection,  \* items of IntegrationTestWriter.integrationTestCollection
  target,            \* items of the collection handed to mergeToCollection
  collection,        \* items of the collection mergeToCollection returned
  scenarios          \* the arguments of the add calls made so far, in order

injectVars == <<pmOperation, oaOperation, contractTest, injected>>
suiteVars == <<config, suite, mappedOperations, call, before, resolved, injections>>
writerVars ==
  <<integrationTestFolder, integrationTestCollection, target, collection, scenarios>>
vars == <<pc, injectVars, suiteVars, writerVars>>

Undefined == "undefined"

(***************************************************************************)
(* Bounds of the model.                                                    *)
(***************************************************************************)
MaxResponses == 2
MaxRules == 2
MaxSteps == 2

(***************************************************************************)
(* Generic sequence helpers.                                               *)
(***************************************************************************)
Range(s) == {s[i] : i \in 1..Len(s)}

Includes(list, x) == \E i \in 1..Len(list) : list[i] = x

RECURSIVE SumSeq(_)
SumSeq(ns) == IF Len(ns) = 0 THEN 0 ELSE Head(ns) + SumSeq(Tail(ns))

RECURSIVE SeqsUpTo(_, _)
SeqsUpTo(S, n) ==
  IF n = 0 THEN {<<>>}
  ELSE LET shorter == SeqsUpTo(S, n - 1)
       IN shorter \cup {Append(s, x) : s \in {t \in shorter : Len(t) = n - 1}, x \in S}

(***************************************************************************)
(* parseInt(code): the number written by the leading decimal digits of the *)
(* key, NaN when the key does not start with a digit.  A key is a tuple of *)
(* one-character strings.                                                  *)
(***************************************************************************)
Digits == {"0", "1", "2", "3", "4", "5", "6", "7", "8", "9"}

DigitValue(c) ==
  CASE c = "0" -> 0 [] c = "1" -> 1 [] c = "2" -> 2 [] c = "3" -> 3 [] c = "4" -> 4
    [] c = "5" -> 5 [] c = "6" -> 6 [] c = "7" -> 7 [] c = "8" -> 8 [] c = "9" -> 9

RECURSIVE ParseDigits(_, _, _)
ParseDigits(key, i, acc) ==
  IF i > Len(key) \/ key[i] \notin Digits THEN acc
  ELSE ParseDigits(key, i + 1, 10 * acc + DigitValue(key[i]))

ParseInt(key) ==
  IF Len(key) = 0 \/ key[1] \notin Digits
  THEN [nan |-> TRUE, num |-> 0]
  ELSE [nan |-> FALSE, num |-> ParseDigits(key, 1, 0)]

\* inRange(x, min, max) of ../utils: min inclusive, max exclusive; NaN is in no range.
InRange(x, min, max) == ~x.nan /\ x.num >= min /\ x.num < max

(***************************************************************************)
(* Object.entries(obj): integer-like keys first in ascending numeric       *)
(* order, then the other keys in insertion order.  obj is the sequence of  *)
(* [key, value] pairs in insertion order, keys distinct.                   *)
(***************************************************************************)
IsIntegerKey(key) ==
  /\ Len(key) > 0
  /\ \A i \in 1..Len(key) : key[i] \in Digits
  /\ (Len(key) > 1 => key[1] # "0")

RECURSIVE SortByKey(_)
SortByKey(entries) ==
  IF Len(entries) = 0 THEN <<>>
  ELSE LET m == CHOOSE i \in 1..Len(entries) :
                  \A j \in 1..Len(entries) :
                    ParseInt(entries[i].key).num <= ParseInt(entries[j].key).num
           rest == SubSeq(entries, 1, m - 1) \o SubSeq(entries, m + 1, Len(entries))
       IN <<entries[m]>> \o SortByKey(rest)

ObjectEntries(obj) ==
  SortByKey(SelectSeq(obj, LAMBDA e : IsIntegerKey(e.key)))
    \o SelectSeq(obj, LAMBDA e : ~IsIntegerKey(e.key))

(***************************************************************************)
(* Assertion injectors (application/tests): each returns the record with   *)
(* one more assertion appended.  An assertion is [kind, arg].              *)
(***************************************************************************)
Assertion(kind, arg) == [kind |-> kind, arg |-> arg]

AppendTest(pmOp, assertion) == [pmOp EXCEPT !.tests = Append(@, assertion)]

testResponseStatusSuccess(pmOp) == AppendTest(pmOp, Assertion("statusSuccess", ""))

testResponseStatusCode(opt, pmOp) == AppendTest(pmOp, Assertion("statusCode", ""))

testResponseTime(opt, pmOp) == AppendTest(pmOp, Assertion("responseTime", ""))

testResponseContentType(contentType, pmOp, oaOp) ==
  AppendTest(pmOp, Assertion("contentType", contentType))

testResponseJsonBody(pmOp, oaOp) == AppendTest(pmOp, Assertion("jsonBody", ""))

testResponseJsonSchema(schema, pmOp, oaOp) ==
  AppendTest(pmOp, Assertion("schemaValidation", schema))

testResponseHeader(headerName, pmOp, oaOp) ==
  AppendTest(pmOp, Assertion("headersPresent", headerName))

(***************************************************************************)
(* inOperations(pmOperation, operations) of ../utils/inOperations: the     *)
(* record's identifier or path reference is named by the list.             *)
(***************************************************************************)
inOperations(pmOp, opt) ==
  /\ opt.hasExclude
  /\ \/ (pmOp.id # Undefined /\ Includes(opt.excludeForOperations, pmOp.id))
     \/ Includes(opt.excludeForOperations, pmOp.pathRef)

(***************************************************************************)
(* TestSuite.getTestTypeFromContractTests and TestSuite.injectContractTests *)
(***************************************************************************)
getTestTypeFromContractTests(rule, type) == rule[type]

\* variant: the exclusion list of the check kind is not consulted
Applies_ignoreExclusion(opt, pmOp) == opt.defined

\* a check kind is applied when its option is present and the record is not excluded
Applies(opt, pmOp) == opt.defined /\ ~inOperations(pmOp, opt)

\* variants of the range test: upper bound included, and strict 2xx
IsHappyPath_upperInclusive(code) ==
  LET x == ParseInt(code) IN ~x.nan /\ x.num >= 200 /\ x.num <= 302

IsHappyPath_strict2xx(code) == InRange(ParseInt(code), 200, 300)

\* line 166: only responses in the happy-path range are processed
IsHappyPath(code) == InRange(ParseInt(code), 200, 302)

\* variant of the content-type entry checks: the JSON body check ignores the media type
InjectContentEntry_anyMediaType(pmOp, entry, oaOp, rule) ==
  LET optContentType == getTestTypeFromContractTests(rule, "contentType")
      optJsonBody == getTestTypeFromContractTests(rule, "jsonBody")
      optSchemaValidation == getTestTypeFromContractTests(rule, "schemaValidation")
      p1 == IF Applies(optContentType, pmOp)
            THEN testResponseContentType(entry.contentType, pmOp, oaOp) ELSE pmOp
      p2 == IF Applies(optJsonBody, p1) THEN testResponseJsonBody(p1, oaOp) ELSE p1
      p3 == IF optSchemaValidation.defined /\ entry.schema # Undefined
               /\ ~inOperations(p2, optSchemaValidation)
            THEN testResponseJsonSchema(entry.schema, p2, oaOp) ELSE p2
  IN p3

\* lines 204-225: the checks of one content-type entry
InjectContentEntry(pmOp, entry, oaOp, rule) ==
  LET optContentType == getTestTypeFromContractTests(rule, "contentType")
      optJsonBody == getTestTypeFromContractTests(rule, "jsonBody")
      optSchemaValidation == getTestTypeFromContractTests(rule, "schemaValidation")
      p1 == IF Applies(optContentType, pmOp)
            THEN testResponseContentType(entry.contentType, pmOp, oaOp) ELSE pmOp
      p2 == IF optJsonBody.defined /\ entry.contentType = "application/json"
               /\ ~inOperations(p1, optJsonBody)
            THEN testResponseJsonBody(p1, oaOp) ELSE p1
      p3 == IF optSchemaValidation.defined /\ entry.schema # Undefined
               /\ ~inOperations(p2, optSchemaValidation)
            THEN testResponseJsonSchema(entry.schema, p2, oaOp) ELSE p2
  IN p3

\* lines 200-226: loop over Object.entries(responseObject.content)
RECURSIVE InjectContent(_, _, _, _, _)
InjectContent(pmOp, content, i, oaOp, rule) ==
  IF i > Len(content) THEN pmOp
  ELSE IF content[i].contentType = ""
       THEN InjectContent(pmOp, content, i + 1, oaOp, rule)
       ELSE InjectContent(InjectContentEntry(pmOp, content[i], oaOp, rule),
                          content, i + 1, oaOp, rule)

\* lines 231-241: loop over Object.entries(responseObject.headers)
RECURSIVE InjectHeaders(_, _, _, _, _)
InjectHeaders(pmOp, headers, i, oaOp, rule) ==
  IF i > Len(headers) THEN pmOp
  ELSE IF headers[i] = ""
       THEN InjectHeaders(pmOp, headers, i + 1, oaOp, rule)
       ELSE LET optHeadersPresent == getTestTypeFromContractTests(rule, "headersPresent")
                p == IF Applies(optHeadersPresent, pmOp)
                     THEN testResponseHeader(headers[i], pmOp, oaOp) ELSE pmOp
            IN InjectHeaders(p, headers, i + 1, oaOp, rule)

\* lines 170-242: the checks of one eligible response
InjectResponse(pmOp, responseObject, oaOp, rule) ==
  LET optStatusSuccess == getTestTypeFromContractTests(rule, "statusSuccess")
      optStatusCode == getTestTypeFromContractTests(rule, "statusCode")
      optResponseTime == getTestTypeFromContractTests(rule, "responseTime")
      p1 == IF Applies(optStatusSuccess, pmOp) THEN testResponseStatusSuccess(pmOp) ELSE pmOp
      p2 == IF Applies(optStatusCode, p1) THEN testResponseStatusCode(optStatusCode, p1) ELSE p1
      p3 == IF Applies(optResponseTime, p2) THEN testResponseTime(optResponseTime, p2) ELSE p2
      p4 == IF responseObject.hasContent
            THEN InjectContent(p3, responseObject.content, 1, oaOp, rule) ELSE p3
      p5 == IF responseObject.hasHeaders
            THEN InjectHeaders(p4, responseObject.headers, 1, oaOp, rule) ELSE p4
  IN p5

\* lines 162-243: loop over Object.entries(oaOperation.schema.responses)
RECURSIVE InjectResponses(_, _, _, _, _)
InjectResponses(pmOp, entries, i, oaOp, rule) ==
  IF i > Len(entries) THEN pmOp
  ELSE IF ~IsHappyPath(entries[i].key)
       THEN InjectResponses(pmOp, entries, i + 1, oaOp, rule)
       ELSE InjectResponses(InjectResponse(pmOp, entries[i].value, oaOp, rule),
                            entries, i + 1, oaOp, rule)

injectContractTests(pmOp, oaOp, rule) ==
  IF ~oaOp.hasResponses THEN pmOp
  ELSE InjectResponses(pmOp, ObjectEntries(oaOp.responses), 1, oaOp, rule)

(***************************************************************************)
(* Inputs of injectContractTests.                                          *)
(***************************************************************************)
Kinds == {"statusSuccess", "statusCode", "responseTime", "contentType",
          "jsonBody", "schemaValidation", "headersPresent"}

PathPets == "GET::/pets"
PathPet == "GET::/pets/{id}"
PathOrders == "POST::/orders"

\* the option of one check kind in a contract-test rule
OptOff == [defined |-> FALSE, hasExclude |-> FALSE, excludeForOperations |-> <<>>]
OptOn == [defined |-> TRUE, hasExclude |-> FALSE, excludeForOperations |-> <<>>]
OptExceptId == [defined |-> TRUE, hasExclude |-> TRUE, excludeForOperations |-> <<"opA">>]
OptExceptPath ==
  [defined |-> TRUE, hasExclude |-> TRUE, excludeForOperations |-> <<"opZ", PathPet>>]

KindOptions == {OptOff, OptOn, OptExceptId, OptExceptPath}

\* rules: every kind enabled, with the option of one kind replaced; and every kind
\* absent, or all but one
ContractTestRules ==
  LET allOn == [k \in Kinds |-> OptOn]
      allOff == [k \in Kinds |-> OptOff]
  IN {allOn, allOff}
       \cup {[allOn EXCEPT ![k] = o] : k \in Kinds, o \in KindOptions}
       \cup {[allOff EXCEPT ![k] = OptOn] : k \in Kinds}

Code200 == <<"2", "0", "0">>
Code301 == <<"3", "0", "1">>
Code302 == <<"3", "0", "2">>
Code404 == <<"4", "0", "4">>
CodeDefault == <<"d", "e", "f", "a", "u", "l", "t">>

Codes == {Code200, Code301, Code302, Code404, CodeDefault}

ContentEntry(contentType, schema) == [contentType |-> contentType, schema |-> schema]

ResponseObject(hasContent, content, hasHeaders, headers) ==
  [hasContent |-> hasContent, content |-> content,
   hasHeaders |-> hasHeaders, headers |-> headers]

BareResponse == ResponseObject(FALSE, <<>>, FALSE, <<>>)

PlainResponse == ResponseObject(FALSE, <<>>, TRUE, <<"ETag">>)

JsonResponse ==
  ResponseObject(TRUE, <<ContentEntry("application/json", "PetSchema"),
                         ContentEntry("text/plain", Undefined)>>,
                 TRUE, <<"X-Rate-Limit", "ETag">>)

\* a response with a content type and a header keyed by the empty string
BlankKeyResponse ==
  ResponseObject(TRUE, <<ContentEntry("", "PetSchema"),
                         ContentEntry("application/json", Undefined),
                         ContentEntry("application/xml", "ErrSchema")>>,
                 TRUE, <<"", "ETag">>)

ResponseObjects == {BareResponse, PlainResponse, JsonResponse, BlankKeyResponse}

\* a responses object: distinct keys, in insertion order
ResponsesObjects ==
  {s \in SeqsUpTo([key : Codes, value : ResponseObjects], MaxResponses) :
     \A i, j \in 1..Len(s) : s[i].key = s[j].key => i = j}

OasOperations ==
  {[hasResponses |-> FALSE, responses |-> <<>>]}
    \cup {[hasResponses |-> TRUE, responses |-> rs] : rs \in ResponsesObjects}

\* a request record; request is the sequence of overwrites applied to the request
PmOperation(id, pathRef, tests) ==
  [id |-> id, pathRef |-> pathRef, name |-> pathRef, tests |-> tests, request |-> <<>>]

PmOperations ==
  { PmOperation("opA", PathPets, <<Assertion("custom", "")>>),
    PmOperation("opB", PathPet, <<>>),
    PmOperation(Undefined, PathOrders, <<Assertion("statusSuccess", "")>>) }

(***************************************************************************)
(* Specification of one injectContractTests call on drawn inputs.          *)
(***************************************************************************)
NoCall == [op |-> "none"]

SuiteIdle ==
  /\ config = [hasTests |-> FALSE]
  /\ suite = [contractTests |-> [defined |-> FALSE, list |-> <<>>]]
  /\ mappedOperations = <<>>
  /\ call = NoCall
  /\ before = <<>>
  /\ resolved = <<>>
  /\ injections = <<>>

InitInject ==
  /\ pc = "start"
  /\ SuiteIdle
  /\ integrationTestFolder = [type |-> "folder", name |-> "", items |-> <<>>]
  /\ integrationTestCollection = <<>>
  /\ target = <<>>
  /\ collection = <<>>
  /\ scenarios = <<>>
  /\ pmOperation \in PmOperations
  /\ oaOperation \in OasOperations
  /\ contractTest \in ContractTestRules
  /\ injected = pmOperation

InjectContractTests ==
  /\ pc = "start"
  /\ injected' = injectContractTests(pmOperation, oaOperation, contractTest)
  /\ pc' = "done"
  /\ UNCHANGED <<pmOperation, oaOperation, contractTest, suiteVars, writerVars>>

NextInject == InjectContractTests

SpecInject == InitInject /\ [][NextInject]_vars

(***************************************************************************)
(* The collection and the contract the TestSuite is constructed over.      *)
(***************************************************************************)
PathGone == "DELETE::/pets/{id}"
PathUnknown == "GET::/unknown"

\* postmanParser.mappedOperations after parsing
Collection ==
  << PmOperation("opA", PathPets, <<>>),
     PmOperation("opB", PathPets, <<Assertion("custom", "")>>),
     PmOperation(Undefined, PathPet, <<>>),
     PmOperation("opC", PathOrders, <<>>),
     PmOperation("opD", PathGone, <<>>) >>

OasOperation(hasResponses, responses) ==
  [defined |-> TRUE, hasResponses |-> hasResponses, responses |-> responses]

NoOperation == [defined |-> FALSE, hasResponses |-> FALSE, responses |-> <<>>]

ResponseEntry(key, value) == [key |-> key, value |-> value]

OasPets ==
  OasOperation(TRUE, <<ResponseEntry(Code404, JsonResponse),
                       ResponseEntry(Code200, JsonResponse)>>)

OasPet ==
  OasOperation(TRUE, <<ResponseEntry(Code301, PlainResponse),
                       ResponseEntry(Code200, JsonResponse)>>)

OasOrders == OasOperation(FALSE, <<>>)

\* oasParser.getOperationByPath(pathRef): the contract operation or undefined
getOperationByPath(pathRef) ==
  CASE pathRef = PathPets -> OasPets
    [] pathRef = PathPet -> OasPet
    [] pathRef = PathOrders -> OasOrders
    [] OTHER -> NoOperation

\* postmanParser.getOperationsByPath(pathRef): the records of that path, in
\* collection order (as indexes into mappedOperations)
getOperationsByPath(ops, pathRef) ==
  SelectSeq([i \in 1..Len(ops) |-> i], LAMBDA i : ops[i].pathRef = pathRef)

\* postmanParser.getOperationsByIds(ids)
getOperationsByIds(ops, ids) ==
  SelectSeq([i \in 1..Len(ops) |-> i], LAMBDA i : Includes(ids, ops[i].id))

Truthy(str) == str # Undefined /\ str # ""

(***************************************************************************)
(* TestSuite.getOperationsFromSetting                                      *)
(***************************************************************************)
\* lines 135-139: the filter predicate
KeepsOperation(pmOp, excludedOperations) ==
  /\ Truthy(pmOp.id)
  /\ ~Includes(excludedOperations, pmOp.id)
  /\ ~Includes(excludedOperations, pmOp.pathRef)

getOperationsFromSetting(ops, settings) ==
  LET pmOperations ==
        IF Truthy(settings.openApiOperation)
        THEN getOperationsByPath(ops, settings.openApiOperation)
        ELSE IF Truthy(settings.openApiOperationId)
             THEN getOperationsByIds(ops, <<settings.openApiOperationId>>)
             ELSE <<>>
  IN IF settings.hasExclude
     THEN SelectSeq(pmOperations,
                    LAMBDA i : KeepsOperation(ops[i], settings.excludeForOperations))
     ELSE pmOperations

(***************************************************************************)
(* TestSuite.generateContractTests.  The state threaded through the loops  *)
(* is [ops, log]: the records and the injections made so far.  Optional    *)
(* arguments are [defined, ...] records.                                   *)
(***************************************************************************)
\* lines 82-90 for one record
GenerateForOperation(st, r, oaArg, rule, ruleIdx) ==
  LET pmOp == st.ops[r]
      operation == IF oaArg.defined THEN oaArg ELSE getOperationByPath(pmOp.pathRef)
  IN IF operation.defined
     THEN [ops |-> [st.ops EXCEPT ![r] = injectContractTests(pmOp, operation, rule.checks)],
           log |-> Append(st.log, <<ruleIdx, r>>)]
     ELSE st

\* variant of the record loop: an operation without contract ends the loop
RECURSIVE GenerateForOperations_stopAtMissing(_, _, _, _, _, _)
GenerateForOperations_stopAtMissing(st, operations, j, oaArg, rule, ruleIdx) ==
  IF j > Len(operations) THEN st
  ELSE IF ~oaArg.defined /\ ~getOperationByPath(st.ops[operations[j]].pathRef).defined
       THEN st
       ELSE GenerateForOperations_stopAtMissing(
              GenerateForOperation(st, operations[j], oaArg, rule, ruleIdx),
              operations, j + 1, oaArg, rule, ruleIdx)

\* lines 82-90: operations.map
RECURSIVE GenerateForOperations(_, _, _, _, _, _)
GenerateForOperations(st, operations, j, oaArg, rule, ruleIdx) ==
  IF j > Len(operations) THEN st
  ELSE GenerateForOperations(GenerateForOperation(st, operations[j], oaArg, rule, ruleIdx),
                             operations, j + 1, oaArg, rule, ruleIdx)

\* lines 79-91: tests.map
RECURSIVE GenerateForTests(_, _, _, _, _)
GenerateForTests(st, tests, i, pmArg, oaArg) ==
  IF i > Len(tests) THEN st
  ELSE LET operations == IF pmArg.defined THEN pmArg.list
                         ELSE getOperationsFromSetting(st.ops, tests[i])
       IN GenerateForTests(GenerateForOperations(st, operations, 1, oaArg, tests[i], i),
                           tests, i + 1, pmArg, oaArg)

generateContractTests(st, this, pmArg, oaArg, testsArg) ==
  LET tests == IF testsArg.defined THEN testsArg ELSE this.contractTests
  IN IF ~tests.defined THEN st
     ELSE GenerateForTests(st, tests.list, 1, pmArg, oaArg)

(***************************************************************************)
(* The other rule-driven entry points.  testResponseBodyContent,           *)
(* extendTest and assignCollectionVariables attach one script to the       *)
(* record; applyOverwrites changes the request of every record given.      *)
(***************************************************************************)
testResponseBodyContent(pmOp) == AppendTest(pmOp, Assertion("responseBodyContent", ""))

extendTest(pmOp) == AppendTest(pmOp, Assertion("extendTest", ""))

assignCollectionVariables(pmOp) == AppendTest(pmOp, Assertion("assignVariables", ""))

applyOverwrite(pmOp) == [pmOp EXCEPT !.request = Append(@, "overwrite")]

\* operations.map with one injector: kind names the injector
RECURSIVE MapOperations(_, _, _, _)
MapOperations(ops, operations, j, kind) ==
  IF j > Len(operations) THEN ops
  ELSE LET r == operations[j]
           pmOp == CASE kind = "content" -> testResponseBodyContent(ops[r])
                     [] kind = "extend" -> extendTest(ops[r])
                     [] kind = "assign" -> assignCollectionVariables(ops[r])
                     [] kind = "overwrite" -> applyOverwrite(ops[r])
       IN MapOperations([ops EXCEPT ![r] = pmOp], operations, j + 1, kind)

\* lines 255-265
RECURSIVE ContentTestsLoop(_, _, _, _)
ContentTestsLoop(ops, tests, i, pmArg) ==
  IF i > Len(tests) THEN ops
  ELSE LET operations == IF pmArg.defined THEN pmArg.list
                         ELSE getOperationsFromSetting(ops, tests[i])
           next == IF tests[i].payload
                   THEN MapOperations(ops, operations, 1, "content") ELSE ops
       IN ContentTestsLoop(next, tests, i + 1, pmArg)

injectContentTests(ops, this, cfg, pmArg, testsArg) ==
  IF ~this.contentTests.defined THEN ops
  ELSE LET tests == IF testsArg.defined THEN testsArg ELSE this.contentTests
       IN ContentTestsLoop(ops, tests.list, 1, pmArg)

\* lines 277-291
RECURSIVE AssignVariablesLoop(_, _, _, _)
AssignVariablesLoop(ops, settings, i, pmArg) ==
  IF i > Len(settings) THEN ops
  ELSE IF ~settings[i].payload
       THEN AssignVariablesLoop(ops, settings, i + 1, pmArg)
       ELSE LET operations == IF pmArg.defined THEN pmArg.list
                              ELSE getOperationsFromSetting(ops, settings[i])
            IN AssignVariablesLoop(MapOperations(ops, operations, 1, "assign"),
                                   settings, i + 1, pmArg)

injectAssignVariables(ops, this, cfg, pmArg, settingsArg) ==
  IF ~cfg.assignVariables.defined THEN ops
  ELSE LET settings == IF settingsArg.defined THEN settingsArg ELSE cfg.assignVariables
       IN AssignVariablesLoop(ops, settings.list, 1, pmArg)

\* lines 303-312
RECURSIVE ExtendedTestsLoop(_, _, _, _)
ExtendedTestsLoop(ops, settings, i, pmArg) ==
  IF i > Len(settings) THEN ops
  ELSE LET operations == IF pmArg.defined THEN pmArg.list
                         ELSE getOperationsFromSetting(ops, settings[i])
           next == IF settings[i].payload
                   THEN MapOperations(ops, operations, 1, "extend") ELSE ops
       IN ExtendedTestsLoop(next, settings, i + 1, pmArg)

injectExtendedTests(ops, this, cfg, pmArg, settingsArg) ==
  IF ~this.extendTests.defined THEN ops
  ELSE LET settings == IF settingsArg.defined THEN settingsArg ELSE this.extendTests
       IN ExtendedTestsLoop(ops, settings.list, 1, pmArg)

\* lines 325-329
RECURSIVE OverwritesLoop(_, _, _, _)
OverwritesLoop(ops, settings, i, pmArg) ==
  IF i > Len(settings) THEN ops
  ELSE LET operations == IF pmArg.defined THEN pmArg.list
                         ELSE getOperationsFromSetting(ops, settings[i])
       IN OverwritesLoop(MapOperations(ops, operations, 1, "overwrite"),
                         settings, i + 1, pmArg)

injectOverwrites(ops, this, cfg, pmArg, settingsArg) ==
  IF ~cfg.overwrites.defined THEN ops
  ELSE LET settings == IF settingsArg.defined THEN settingsArg ELSE cfg.overwrites
       IN OverwritesLoop(ops, settings.list, 1, pmArg)

(***************************************************************************)
(* Rules, configurations and arguments the entry points are called with.   *)
(***************************************************************************)
Absent == [defined |-> FALSE, list |-> <<>>]
Given(list) == [defined |-> TRUE, list |-> list]

AllOn == [k \in Kinds |-> OptOn]
AllOff == [k \in Kinds |-> OptOff]

\* a rule of any kind: the selector, the exclusion list, the enabled checks of a
\* contract-test rule, and whether the kind-specific part (responseBodyTests,
\* tests, collectionVariables) is present
Setting(path, id, hasExclude, exclude, checks, payload) ==
  [openApiOperation |-> path, openApiOperationId |-> id,
   hasExclude |-> hasExclude, excludeForOperations |-> exclude,
   checks |-> checks, payload |-> payload]

Selectors ==
  { <<PathPets, Undefined>>, <<PathPet, Undefined>>, <<PathOrders, Undefined>>,
    <<PathUnknown, Undefined>>, <<Undefined, "opA">>, <<Undefined, "opD">>,
    <<Undefined, "opX">>, <<Undefined, Undefined>>, <<PathPet, "opA">> }

Exclusions ==
  { <<FALSE, <<>>>>, <<TRUE, <<>>>>, <<TRUE, <<"opA">>>>, <<TRUE, <<PathPets, "opX">>>> }

Settings ==
  {Setting(sel[1], sel[2], ex[1], ex[2], AllOff, TRUE) : sel \in Selectors, ex \in Exclusions}

ContractRules ==
  {Setting(sel[1], sel[2], ex[1], ex[2], checks, TRUE) :
     sel \in Selectors, ex \in {<<FALSE, <<>>>>, <<TRUE, <<"opB">>>>},
     checks \in ContractTestRules}

CoreContractRules ==
  { Setting(PathPets, Undefined, FALSE, <<>>, AllOn, TRUE),
    Setting(PathUnknown, Undefined, FALSE, <<>>, AllOn, TRUE),
    Setting(Undefined, "opD", FALSE, <<>>, AllOn, TRUE),
    Setting(PathOrders, Undefined, FALSE, <<>>, AllOn, TRUE),
    Setting(PathPet, Undefined, FALSE, <<>>, [AllOff EXCEPT !["statusCode"] = OptOn], TRUE),
    Setting(Undefined, "opA", FALSE, <<>>, [AllOn EXCEPT !["statusCode"] = OptExceptId], TRUE) }

ContractRuleLists ==
  {<<r>> : r \in ContractRules} \cup SeqsUpTo(CoreContractRules, MaxRules)

OtherRules ==
  {Setting(sel[1], sel[2], ex[1], ex[2], AllOff, payload) :
     sel \in Selectors, ex \in {<<FALSE, <<>>>>, <<TRUE, <<"opA">>>>}, payload \in BOOLEAN}

CoreOtherRules ==
  { Setting(PathPets, Undefined, FALSE, <<>>, AllOff, TRUE),
    Setting(Undefined, "opD", FALSE, <<>>, AllOff, TRUE),
    Setting(PathUnknown, Undefined, FALSE, <<>>, AllOff, TRUE),
    Setting(PathPets, Undefined, FALSE, <<>>, AllOff, FALSE) }

OtherRuleLists ==
  {<<r>> : r \in OtherRules} \cup SeqsUpTo(CoreOtherRules, MaxRules)

PmArguments == {Absent, Given(<<1>>), Given(<<5, 4, 2>>), Given(<<3, 1>>)}

OaArguments == {NoOperation, OasPet}

InstanceContractTests == <<Setting(PathPets, Undefined, FALSE, <<>>, AllOn, TRUE)>>
InstanceOtherRules == <<Setting(Undefined, "opA", FALSE, <<>>, AllOff, TRUE)>>

\* a PortmanConfig: which rule kinds it holds
Config(hasTests, contract, content, extend, assign, overwrites) ==
  [hasTests |-> hasTests,
   tests |-> [contractTests |-> IF contract THEN Given(InstanceContractTests) ELSE Absent,
              contentTests |-> IF content THEN Given(InstanceOtherRules) ELSE Absent,
              variationTests |-> Absent,
              extendTests |-> IF extend THEN Given(InstanceOtherRules) ELSE Absent],
   assignVariables |-> IF assign THEN Given(InstanceOtherRules) ELSE Absent,
   overwrites |-> IF overwrites THEN Given(InstanceOtherRules) ELSE Absent]

Configs ==
  { Config(FALSE, FALSE, FALSE, FALSE, FALSE, FALSE),
    Config(TRUE, FALSE, FALSE, FALSE, FALSE, FALSE),
    Config(TRUE, TRUE, TRUE, TRUE, TRUE, TRUE),
    Config(TRUE, TRUE, FALSE, FALSE, FALSE, FALSE),
    Config(TRUE, FALSE, TRUE, FALSE, FALSE, FALSE),
    Config(TRUE, FALSE, FALSE, TRUE, FALSE, FALSE),
    Config(FALSE, FALSE, FALSE, FALSE, TRUE, FALSE),
    Config(FALSE, FALSE, FALSE, FALSE, FALSE, TRUE) }

\* lines 61-68
setupTests(cfg) ==
  IF ~cfg.hasTests
  THEN [contractTests |-> Absent, contentTests |-> Absent,
        variationTests |-> Absent, extendTests |-> Absent]
  ELSE [contractTests |-> cfg.tests.contractTests, contentTests |-> cfg.tests.contentTests,
        variationTests |-> cfg.tests.variationTests, extendTests |-> cfg.tests.extendTests]

(***************************************************************************)
(* Specification of a TestSuite: construction, then one entry-point call.  *)
(***************************************************************************)
InjectIdle ==
  /\ pmOperation = PmOperation(Undefined, Undefined, <<>>)
  /\ oaOperation = NoOperation
  /\ contractTest = AllOff
  /\ injected = pmOperation

WriterIdle ==
  /\ integrationTestFolder = [type |-> "folder", name |-> "", items |-> <<>>]
  /\ integrationTestCollection = <<>>
  /\ target = <<>>
  /\ collection = <<>>
  /\ scenarios = <<>>

\* lines 48-59: the constructor
Init ==
  /\ pc = "ready"
  /\ InjectIdle
  /\ WriterIdle
  /\ config \in Configs
  /\ suite = setupTests(config)
  /\ mappedOperations = Collection
  /\ call = NoCall
  /\ before = Collection
  /\ resolved = <<>>
  /\ injections = <<>>

Call(op, pmArg, oaArg, rules) ==
  [op |-> op, pmOperations |-> pmArg, oaOperation |-> oaArg, rules |-> rules]

GetOperationsFromSetting ==
  /\ pc = "ready"
  /\ \E settings \in Settings :
       /\ call' = Call("getOperationsFromSetting", Absent, NoOperation, Given(<<settings>>))
       /\ resolved' = getOperationsFromSetting(mappedOperations, settings)
  /\ pc' = "done"
  /\ before' = mappedOperations
  /\ UNCHANGED <<injectVars, writerVars, config, suite, mappedOperations, injections>>

GenerateContractTests ==
  /\ pc = "ready"
  /\ \E pmArg \in PmArguments, oaArg \in OaArguments,
        testsArg \in {Absent} \cup {Given(l) : l \in ContractRuleLists} :
       LET st == generateContractTests([ops |-> mappedOperations, log |-> <<>>],
                                       suite, pmArg, oaArg, testsArg)
       IN /\ call' = Call("generateContractTests", pmArg, oaArg, testsArg)
          /\ mappedOperations' = st.ops
          /\ injections' = st.log
  /\ pc' = "done"
  /\ before' = mappedOperations
  /\ UNCHANGED <<injectVars, writerVars, config, suite, resolved>>

InjectContentTests ==
  /\ pc = "ready"
  /\ \E pmArg \in PmArguments, testsArg \in {Absent} \cup {Given(l) : l \in OtherRuleLists} :
       /\ call' = Call("injectContentTests", pmArg, NoOperation, testsArg)
       /\ mappedOperations' = injectContentTests(mappedOperations, suite, config, pmArg, testsArg)
  /\ pc' = "done"
  /\ before' = mappedOperations
  /\ UNCHANGED <<injectVars, writerVars, config, suite, resolved, injections>>

InjectAssignVariables ==
  /\ pc = "ready"
  /\ \E pmArg \in PmArguments, testsArg \in {Absent} \cup {Given(l) : l \in OtherRuleLists} :
       /\ call' = Call("injectAssignVariables", pmArg, NoOperation, testsArg)
       /\ mappedOperations' =
            injectAssignVariables(mappedOperations, suite, config, pmArg, testsArg)
  /\ pc' = "done"
  /\ before' = mappedOperations
  /\ UNCHANGED <<injectVars, writerVars, config, suite, resolved, injections>>

InjectExtendedTests ==
  /\ pc = "ready"
  /\ \E pmArg \in PmArguments, testsArg \in {Absent} \cup {Given(l) : l \in OtherRuleLists} :
       /\ call' = Call("injectExtendedTests", pmArg, NoOperation, testsArg)
       /\ mappedOperations' =
            injectExtendedTests(mappedOperations, suite, config, pmArg, testsArg)
  /\ pc' = "done"
  /\ before' = mappedOperations
  /\ UNCHANGED <<injectVars, writerVars, config, suite, resolved, injections>>

InjectOverwrites ==
  /\ pc = "ready"
  /\ \E pmArg \in PmArguments, testsArg \in {Absent} \cup {Given(l) : l \in OtherRuleLists} :
       /\ call' = Call("injectOverwrites", pmArg, NoOperation, testsArg)
       /\ mappedOperations' = injectOverwrites(mappedOperations, suite, config, pmArg, testsArg)
  /\ pc' = "done"
  /\ before' = mappedOperations
  /\ UNCHANGED <<injectVars, writerVars, config, suite, resolved, injections>>

Next ==
  \/ GetOperationsFromSetting
  \/ GenerateContractTests
  \/ InjectContentTests
  \/ InjectAssignVariables
  \/ InjectExtendedTests
  \/ InjectOverwrites

Spec == Init /\ [][Next]_vars

(***************************************************************************)
(* IntegrationTestWriter.  A collection or folder holds a sequence of      *)
(* nodes: folders [type, name, items] and requests (the item of a record). *)
(***************************************************************************)
Folder(name, items) ==
  [type |-> "folder", name |-> name, id |-> "", pathRef |-> "", request |-> <<>>,
   items |-> items]

\* the item of a request record
Item(pmOp) ==
  [type |-> "request", name |-> pmOp.name, id |-> pmOp.id, pathRef |-> pmOp.pathRef,
   request |-> pmOp.request, items |-> <<>>]

\* postmanParser.getOperationById(id): the index of the record, 0 for undefined
getOperationById(ops, id) ==
  IF \E i \in 1..Len(ops) : ops[i].id = id
  THEN CHOOSE i \in 1..Len(ops) : ops[i].id = id /\ \A j \in 1..(i - 1) : ops[j].id # id
  ELSE 0

\* PostmanMappedOperation.clone({newId, name}): a copy with a new identifier and name
clone(pmOp, newId, name) == [pmOp EXCEPT !.id = newId, !.name = name]

\* VariationWriter.injectVariations: the variation's changes applied to the clone
injectVariations(pmOp, oaOp, variation) ==
  [pmOp EXCEPT !.request = Append(@, variation.name)]

\* VariationWriter.addToFolder(operationVariation, folder)
addToFolder(pmOp, folder) == [folder EXCEPT !.items = Append(@, Item(pmOp))]

\* VariationWriter.mergeToCollection(collection): the writer's folder is appended
variationWriterMerge(variationFolder, items) == Append(items, variationFolder)

\* Math.random() as printed in the template string
RandomValues == {"0.25", "0.75"}

\* lines 41-46: the clone of one variation; rnd is the value Math.random() returned
CloneForVariation(pmOp, variation, rnd) ==
  LET variationName == variation.name
  IN clone(pmOp, variationName \o "-" \o rnd, variationName)

\* lines 40-50: variations.map; st is [folder, used], used counting the random
\* values consumed so far
RECURSIVE AddVariations(_, _, _, _, _, _)
AddVariations(st, pmOp, oaOp, variations, j, rnds) ==
  IF j > Len(variations) THEN st
  ELSE LET operationVariation == CloneForVariation(pmOp, variations[j], rnds[st.used + 1])
           injectedVariation == injectVariations(operationVariation, oaOp, variations[j])
       IN AddVariations([folder |-> addToFolder(injectedVariation, st.folder),
                         used |-> st.used + 1],
                        pmOp, oaOp, variations, j + 1, rnds)

\* variant of the step loop: an unresolvable step ends the scenario
RECURSIVE AddOperations_abortOnMissing(_, _, _, _, _)
AddOperations_abortOnMissing(st, ops, operations, i, rnds) ==
  IF i > Len(operations) THEN st
  ELSE LET r == getOperationById(ops, operations[i].openApiOperationId)
       IN IF r = 0 THEN st
          ELSE AddOperations_abortOnMissing(
                 AddVariations(st, ops[r], getOperationByPath(ops[r].pathRef),
                               operations[i].variations, 1, rnds),
                 ops, operations, i + 1, rnds)

\* lines 33-51: operations.map
RECURSIVE AddOperations(_, _, _, _, _)
AddOperations(st, ops, operations, i, rnds) ==
  IF i > Len(operations) THEN st
  ELSE LET r == getOperationById(ops, operations[i].openApiOperationId)
       IN IF r = 0
          THEN AddOperations(st, ops, operations, i + 1, rnds)
          ELSE AddOperations(AddVariations(st, ops[r], getOperationByPath(ops[r].pathRef),
                                           operations[i].variations, 1, rnds),
                             ops, operations, i + 1, rnds)

\* lines 24-56: add(integrationTest); returns the new integrationTestCollection items
add(itcItems, ops, integrationTest, rnds) ==
  LET variationFolder == Folder(integrationTest.name, <<>>)
      st == AddOperations([folder |-> variationFolder, used |-> 0], ops,
                          integrationTest.operations, 1, rnds)
  IN variationWriterMerge(st.folder, itcItems)

\* variant of the merge: the scenario folders are put into the collection directly
mergeToCollection_flat(folder, itcItems, items) ==
  [folder |-> folder, items |-> items \o itcItems]

\* lines 58-66: mergeToCollection(collection); returns the folder and the items of
\* the collection
mergeToCollection(folder, itcItems, items) ==
  LET filled == [folder EXCEPT !.items = @ \o itcItems]
  IN [folder |-> filled, items |-> Append(items, filled)]

(***************************************************************************)
(* Specification of an IntegrationTestWriter: construction, add calls,     *)
(* then one mergeToCollection.                                             *)
(***************************************************************************)
IntegrationTestFolderName == "Integration Tests"

Variation(name) == [name |-> name]

VariationLists ==
  { <<Variation("validBody")>>, <<Variation("notFound")>>,
    <<Variation("validBody"), Variation("notFound")>>,
    <<Variation("validBody"), Variation("validBody")>> }

StepIds == {"opA", "opC", "opX"}

Steps == [openApiOperationId : StepIds, variations : VariationLists]

ScenarioNames == {"petFlow", "orderFlow"}

\* the scenarios of at most maxSize steps
IntegrationTests(maxSize) ==
  [name : ScenarioNames, operations : SeqsUpTo(Steps, maxSize)]

\* the number of clones a scenario makes: one Math.random() call each
RECURSIVE NumClones(_, _)
NumClones(ops, operations) ==
  IF Len(operations) = 0 THEN 0
  ELSE (IF getOperationById(ops, Head(operations).openApiOperationId) = 0 THEN 0
        ELSE Len(Head(operations).variations))
       + NumClones(ops, Tail(operations))

\* the size of a scenario: its number of steps, a scenario without steps counting one
Size(integrationTest) ==
  IF Len(integrationTest.operations) = 0 THEN 1 ELSE Len(integrationTest.operations)

SizeAdded == SumSeq([k \in 1..Len(scenarios) |-> Size(scenarios[k])])

\* lines 10-22: the constructor
InitWriter ==
  /\ pc = "adding"
  /\ InjectIdle
  /\ config = Config(FALSE, FALSE, FALSE, FALSE, FALSE, FALSE)
  /\ suite = setupTests(config)
  /\ mappedOperations = Collection
  /\ call = NoCall
  /\ before = Collection
  /\ resolved = <<>>
  /\ injections = <<>>
  /\ integrationTestFolder = Folder(IntegrationTestFolderName, <<>>)
  /\ integrationTestCollection = <<>>
  /\ target \in {<<>>, <<Folder("Pets", <<Item(Collection[1])>>)>>}
  /\ collection = target
  /\ scenarios = <<>>

Add ==
  /\ pc = "adding"
  /\ SizeAdded < MaxSteps
  /\ \E integrationTest \in IntegrationTests(MaxSteps - SizeAdded) :
       /\ \E rnds \in [1..NumClones(mappedOperations, integrationTest.operations)
                         -> RandomValues] :
            integrationTestCollection' =
              add(integrationTestCollection, mappedOperations, integrationTest, rnds)
       /\ scenarios' = Append(scenarios, integrationTest)
  /\ UNCHANGED <<pc, injectVars, suiteVars, integrationTestFolder, target, collection>>

MergeToCollection ==
  /\ pc = "adding"
  /\ LET res == mergeToCollection(integrationTestFolder, integrationTestCollection, target)
     IN /\ integrationTestFolder' = res.folder
        /\ collection' = res.items
  /\ pc' = "merged"
  /\ UNCHANGED <<injectVars, suiteVars, integrationTestCollection, target, scenarios>>

NextWriter == Add \/ MergeToCollection

SpecWriter == InitWriter /\ [][NextWriter]_vars

(***************************************************************************)
(* Properties of injectContractTests.                                      *)
(***************************************************************************)
Count(kind, tests) == Len(SelectSeq(tests, LAMBDA a : a.kind = kind))

RECURSIVE Concat(_)
Concat(seqs) == IF Len(seqs) = 0 THEN <<>> ELSE Head(seqs) \o Concat(Tail(seqs))

\* the status code of a response key lies in [200, 302)
InSuccessRange(key) ==
  LET x == ParseInt(key) IN ~x.nan /\ 200 <= x.num /\ x.num < 302

\* the assertions the call appended
Appended(pre, post) == SubSeq(post.tests, Len(pre.tests) + 1, Len(post.tests))

KeepsTests(pre, post) ==
  /\ Len(post.tests) >= Len(pre.tests)
  /\ SubSeq(post.tests, 1, Len(pre.tests)) = pre.tests

EligibleKeys(oaOp) ==
  IF oaOp.hasResponses
  THEN {oaOp.responses[i].key : i \in {j \in 1..Len(oaOp.responses) :
                                         InSuccessRange(oaOp.responses[j].key)}}
  ELSE {}

\* the operation with its responses outside [200, 302) removed
OnlyEligible(oaOp) ==
  [oaOp EXCEPT !.responses = SelectSeq(@, LAMBDA e : InSuccessRange(e.key))]

\* C1: a declared response whose status code lies outside [200, 302) contributes no
\* assertion: the record returned is the one returned for the operation without
\* those responses, and when every declared response is outside the range the
\* assertion sequence is unchanged.
C1_OutOfRangeResponsesIgnored ==
  pc = "done" =>
    /\ injected = injectContractTests(pmOperation, OnlyEligible(oaOperation), contractTest)
    /\ (EligibleKeys(oaOperation) = {} => injected.tests = pmOperation.tests)

C1_Witness ==
  /\ pc = "done"
  /\ oaOperation.hasResponses
  /\ \E i \in 1..Len(oaOperation.responses) :
       /\ oaOperation.responses[i].key = Code404
       /\ oaOperation.responses[i].value.hasContent
  /\ \E i \in 1..Len(oaOperation.responses) : oaOperation.responses[i].key = Code302
  /\ \A k \in Kinds : contractTest[k] = OptOn
  /\ pmOperation.tests # <<>>
  /\ injected.tests = pmOperation.tests

Indexes(seq) == [i \in 1..Len(seq) |-> i]

\* the rules a generateContractTests call applies
AppliedContractTests ==
  IF call.rules.defined THEN call.rules.list
  ELSE IF suite.contractTests.defined THEN suite.contractTests.list ELSE <<>>

\* the records rule i of the call is applied to, in processing order
OperationsOfRule(i) ==
  IF call.pmOperations.defined THEN call.pmOperations.list
  ELSE getOperationsFromSetting(before, AppliedContractTests[i])

\* the contract operation used for record r
ContractOf(r) ==
  IF call.oaOperation.defined THEN call.oaOperation
  ELSE getOperationByPath(before[r].pathRef)

Handles(i, r) == Includes(OperationsOfRule(i), r) /\ ContractOf(r).defined

\* what rule i alone appends to record r
ContributionOf(i, r) ==
  IF Handles(i, r)
  THEN Appended(before[r],
                injectContractTests(before[r], ContractOf(r), AppliedContractTests[i].checks))
  ELSE <<>>

\* C9: generateContractTests hands the records to injectContractTests rule by rule
\* in declaration order and, within a rule, in resolution order; rules resolving to
\* no record, records without contract operation and operations without responses
\* contribute nothing, and every record ends with its former assertions followed
\* by what each rule that reaches it appends, as if the skipped items were absent.
C9_SkipAndContinueInOrder ==
  (pc = "done" /\ call.op = "generateContractTests") =>
    /\ injections =
         Concat([i \in 1..Len(AppliedContractTests) |->
                   LET reached == SelectSeq(OperationsOfRule(i),
                                            LAMBDA r : ContractOf(r).defined)
                   IN [j \in 1..Len(reached) |-> <<i, reached[j]>>]])
    /\ \A r \in 1..Len(before) :
         /\ mappedOperations[r].tests =
              before[r].tests
                \o Concat([i \in 1..Len(AppliedContractTests) |-> ContributionOf(i, r)])
         /\ mappedOperations[r].id = before[r].id
         /\ mappedOperations[r].pathRef = before[r].pathRef

C9_Witness ==
  /\ pc = "done"
  /\ call.op = "generateContractTests"
  /\ call.pmOperations = Given(<<5, 4, 2>>)
  /\ ~call.oaOperation.defined
  /\ call.rules.defined
  /\ Len(call.rules.list) = 2
  /\ call.rules.list[1].openApiOperation = PathUnknown
  /\ injections = <<<<1, 4>>, <<1, 2>>, <<2, 4>>, <<2, 2>>>>
  /\ Len(mappedOperations[2].tests) > Len(before[2].tests)
  /\ mappedOperations[4].tests = before[4].tests
  /\ mappedOperations[5].tests = before[5].tests

\* the record is named by the exclusion list of the option
Listed(pmOp, opt) ==
  /\ opt.hasExclude
  /\ \E x \in Range(opt.excludeForOperations) :
       (x = pmOp.id /\ pmOp.id # Undefined) \/ x = pmOp.pathRef

\* how many assertions of a kind one response calls for
ApplicableInResponse(kind, response) ==
  LET content == IF response.hasContent
                 THEN SelectSeq(response.content, LAMBDA e : e.contentType # "") ELSE <<>>
      headers == IF response.hasHeaders
                 THEN SelectSeq(response.headers, LAMBDA h : h # "") ELSE <<>>
  IN CASE kind \in {"statusSuccess", "statusCode", "responseTime"} -> 1
       [] kind = "contentType" -> Len(content)
       [] kind = "jsonBody" ->
            Len(SelectSeq(content, LAMBDA e : e.contentType = "application/json"))
       [] kind = "schemaValidation" ->
            Len(SelectSeq(content, LAMBDA e : e.schema # Undefined))
       [] kind = "headersPresent" -> Len(headers)

\* how many assertions of a kind a contract operation calls for
Applicable(kind, oaOp) ==
  IF ~oaOp.hasResponses THEN 0
  ELSE LET eligible == SelectSeq(oaOp.responses, LAMBDA e : InSuccessRange(e.key))
       IN SumSeq([n \in 1..Len(eligible) |-> ApplicableInResponse(kind, eligible[n].value)])

\* C2: exclusion is evaluated per check kind.  After generateContractTests, each
\* record has received, of each kind, the applicable assertions once per rule that
\* reaches it, enables the kind and does not list the record for that kind, and
\* none for a rule whose list for that kind names it by identifier or path.
C2_ExclusionPerCheckKind ==
  (pc = "done" /\ call.op = "generateContractTests") =>
    \A r \in 1..Len(before) : \A kind \in Kinds :
      Count(kind, Appended(before[r], mappedOperations[r]))
        = SumSeq([i \in 1..Len(AppliedContractTests) |->
                    LET opt == AppliedContractTests[i].checks[kind]
                    IN IF Handles(i, r) /\ opt.defined /\ ~Listed(before[r], opt)
                       THEN Applicable(kind, ContractOf(r)) ELSE 0])

C2_Witness ==
  /\ pc = "done"
  /\ call.op = "generateContractTests"
  /\ call.rules.defined /\ ~call.pmOperations.defined /\ ~call.oaOperation.defined
  /\ Len(call.rules.list) = 1
  /\ call.rules.list[1].openApiOperation = PathPets
  /\ ~call.rules.list[1].hasExclude
  /\ call.rules.list[1].checks = [AllOn EXCEPT !["schemaValidation"] = OptExceptId]
  /\ injections = <<<<1, 1>>, <<1, 2>>>>
  /\ Count("schemaValidation", Appended(before[1], mappedOperations[1])) = 0
  /\ \A kind \in Kinds \ {"schemaValidation"} :
       Count(kind, Appended(before[1], mappedOperations[1])) > 0
  /\ Count("schemaValidation", Appended(before[2], mappedOperations[2])) > 0

\* the records a setting selects before exclusion
SelectedBy(settings) ==
  IF Truthy(settings.openApiOperation)
  THEN SelectSeq(Indexes(before), LAMBDA i : before[i].pathRef = settings.openApiOperation)
  ELSE IF Truthy(settings.openApiOperationId)
       THEN SelectSeq(Indexes(before), LAMBDA i : before[i].id = settings.openApiOperationId)
       ELSE <<>>

\* C3: getOperationsFromSetting returns the records selected by path reference, else
\* by identifier, else none, minus exactly those whose identifier or path reference
\* appears in the exclusion list.
C3_ResolvedMinusExcluded ==
  (pc = "done" /\ call.op = "getOperationsFromSetting") =>
    LET settings == call.rules.list[1]
    IN resolved =
         SelectSeq(SelectedBy(settings),
                   LAMBDA i : ~(/\ settings.hasExclude
                                /\ \/ Includes(settings.excludeForOperations, before[i].id)
                                   \/ Includes(settings.excludeForOperations,
                                               before[i].pathRef)))

EntryPoints ==
  {"generateContractTests", "injectContentTests", "injectExtendedTests",
   "injectAssignVariables", "injectOverwrites"}

\* the configuration the instance holds for an entry point
InstanceRules(op) ==
  CASE op = "generateContractTests" -> suite.contractTests
    [] op = "injectContentTests" -> suite.contentTests
    [] op = "injectExtendedTests" -> suite.extendTests
    [] op = "injectAssignVariables" -> config.assignVariables
    [] op = "injectOverwrites" -> config.overwrites

\* the records after the given rules are applied by an entry point
RulesApplied(op, rules) ==
  CASE op = "generateContractTests" ->
         GenerateForTests([ops |-> before, log |-> <<>>], rules, 1,
                          call.pmOperations, call.oaOperation).ops
    [] op = "injectContentTests" -> ContentTestsLoop(before, rules, 1, call.pmOperations)
    [] op = "injectExtendedTests" -> ExtendedTestsLoop(before, rules, 1, call.pmOperations)
    [] op = "injectAssignVariables" -> AssignVariablesLoop(before, rules, 1, call.pmOperations)
    [] op = "injectOverwrites" -> OverwritesLoop(before, rules, 1, call.pmOperations)

\* C8: every rule-driven entry point applies the caller-supplied rule list when one
\* is passed and the instance-held configuration otherwise, and changes nothing
\* only when neither is present.
C8_CallerRulesOverrideInstance ==
  (pc = "done" /\ call.op \in EntryPoints) =>
    mappedOperations =
      IF call.rules.defined THEN RulesApplied(call.op, call.rules.list)
      ELSE IF InstanceRules(call.op).defined
           THEN RulesApplied(call.op, InstanceRules(call.op).list)
           ELSE before

(***************************************************************************)
(* The sequence injectContractTests appends.                               *)
(***************************************************************************)
\* the record receives the kind under the rule
Receives(kind) == contractTest[kind].defined /\ ~Listed(pmOperation, contractTest[kind])

One(kind, arg) == IF Receives(kind) THEN <<Assertion(kind, arg)>> ELSE <<>>

ExpectedForContent(entry) ==
  One("contentType", entry.contentType)
    \o (IF entry.contentType = "application/json" THEN One("jsonBody", "") ELSE <<>>)
    \o (IF entry.schema # Undefined THEN One("schemaValidation", entry.schema) ELSE <<>>)

\* named: only the content types and header names that are not the empty string
ExpectedForResponse(response, named) ==
  LET content == IF ~response.hasContent THEN <<>>
                 ELSE IF named THEN SelectSeq(response.content, LAMBDA e : e.contentType # "")
                      ELSE response.content
      headers == IF ~response.hasHeaders THEN <<>>
                 ELSE IF named THEN SelectSeq(response.headers, LAMBDA h : h # "")
                      ELSE response.headers
  IN One("statusSuccess", "") \o One("statusCode", "") \o One("responseTime", "")
       \o Concat([n \in 1..Len(content) |-> ExpectedForContent(content[n])])
       \o Concat([n \in 1..Len(headers) |-> One("headersPresent", headers[n])])

ExpectedAppended(named) ==
  IF ~oaOperation.hasResponses THEN <<>>
  ELSE LET eligible == SelectSeq(ObjectEntries(oaOperation.responses),
                                 LAMBDA e : InSuccessRange(e.key))
       IN Concat([n \in 1..Len(eligible) |-> ExpectedForResponse(eligible[n].value, named)])

Clones ==
  Concat([k \in 1..Len(integrationTestCollection) |-> integrationTestCollection[k].items])

\* C5: every clone has an identifier different from the identifier of every record
\* of the source collection and from that of every other clone of the run.
C5_CloneIdentifiersDistinct ==
  /\ \A a, b \in 1..Len(Clones) : a # b => Clones[a].id # Clones[b].id
  /\ \A a \in 1..Len(Clones) : \A r \in 1..Len(mappedOperations) :
       Clones[a].id # mappedOperations[r].id

\* the step names a record of the collection
Resolvable(step) ==
  \E r \in 1..Len(mappedOperations) : mappedOperations[r].id = step.openApiOperationId

SourceOf(step) ==
  mappedOperations[CHOOSE r \in 1..Len(mappedOperations) :
                     /\ mappedOperations[r].id = step.openApiOperationId
                     /\ \A q \in 1..(r - 1) :
                          mappedOperations[q].id # step.openApiOperationId]

\* the <<name, path reference>> pairs of the clones a scenario calls for
ExpectedClones(integrationTest) ==
  Concat([i \in 1..Len(integrationTest.operations) |->
            LET step == integrationTest.operations[i]
            IN IF Resolvable(step)
               THEN [j \in 1..Len(step.variations) |->
                       <<step.variations[j].name, SourceOf(step).pathRef>>]
               ELSE <<>>])

\* C7: add skips the steps that resolve to no record and goes on; the grouping of
\* each scenario holds one clone per variation of each resolvable step and nothing
\* else, in step order and within a step in variation order.
C7_GroupingFollowsStepsAndVariations ==
  /\ Len(integrationTestCollection) = Len(scenarios)
  /\ \A k \in 1..Len(scenarios) :
       LET grouping == integrationTestCollection[k]
       IN /\ grouping.type = "folder"
          /\ grouping.name = scenarios[k].name
          /\ [n \in 1..Len(grouping.items) |->
                <<grouping.items[n].name, grouping.items[n].pathRef>>]
               = ExpectedClones(scenarios[k])
          /\ \A n \in 1..Len(grouping.items) :
               /\ grouping.items[n].type = "request"
               /\ grouping.items[n].request = <<grouping.items[n].name>>

C7_Witness ==
  /\ Len(scenarios) = 1
  /\ Len(scenarios[1].operations) = 2
  /\ scenarios[1].operations[1].openApiOperationId = "opX"
  /\ Len(scenarios[1].operations[1].variations) = 2
  /\ scenarios[1].operations[2].openApiOperationId = "opC"
  /\ [n \in 1..Len(integrationTestCollection[1].items) |->
        integrationTestCollection[1].items[n].name] = <<"validBody", "notFound">>

\* one scenario was added, of two resolvable steps with one variation each
TwoStepScenarioMerged ==
  /\ pc = "merged"
  /\ Len(scenarios) = 1
  /\ Len(scenarios[1].operations) = 2
  /\ \A i \in 1..2 : /\ Resolvable(scenarios[1].operations[i])
                     /\ Len(scenarios[1].operations[i].variations) = 1

\* C6 as stated: the merge adds one folder holding two sub-folders in step order,
\* each holding exactly one cloned request named as its variation.
C6_TwoSubFolders ==
  TwoStepScenarioMerged =>
    /\ Len(collection) = Len(target) + 1
    /\ LET top == collection[Len(collection)]
       IN /\ top.type = "folder"
          /\ Len(top.items) = 2
          /\ \A i \in 1..2 :
               /\ top.items[i].type = "folder"
               /\ Len(top.items[i].items) = 1
               /\ top.items[i].items[1].type = "request"
               /\ top.items[i].items[1].name = scenarios[1].operations[i].variations[1].name

\* C6 amended: the merge adds one folder, named as the writer was constructed,
\* holding one sub-folder named after the scenario, which holds the two cloned
\* requests in step order, each named as its variation.
C6_OneScenarioFolderOfTwoClones ==
  TwoStepScenarioMerged =>
    /\ Len(collection) = Len(target) + 1
    /\ SubSeq(collection, 1, Len(target)) = target
    /\ LET top == collection[Len(collection)]
       IN /\ top.type = "folder"
          /\ top.name = IntegrationTestFolderName
          /\ Len(top.items) = 1
          /\ top.items[1].type = "folder"
          /\ top.items[1].name = scenarios[1].name
          /\ Len(top.items[1].items) = 2
          /\ \A i \in 1..2 :
               /\ top.items[1].items[i].type = "request"
               /\ top.items[1].items[i].name = scenarios[1].operations[i].variations[1].name
               /\ top.items[1].items[i].pathRef = SourceOf(scenarios[1].operations[i]).pathRef

C6_Witness ==
  /\ TwoStepScenarioMerged
  /\ Len(target) = 1
  /\ scenarios[1].operations[1].openApiOperationId = "opA"
  /\ scenarios[1].operations[2].openApiOperationId = "opC"
  /\ Len(collection) = 2
  /\ collection[2].items[1].name = "petFlow"
  /\ [i \in 1..2 |-> collection[2].items[1].items[i].name] = <<"validBody", "notFound">>

====
